---------------------------- MODULE Spec2Model ----------------------------
(***************************************************************************)
(* Model of app.py: a FastAPI application whose whole state is two         *)
(* module-level dictionaries (users, images) and a counter                 *)
(* (next_image_id), mutated by ten route handlers.                         *)
(*                                                                         *)
(* Each handler is a pure operator from the store it is called on to the   *)
(* store it leaves and the HTTP response it returns.  Markup is modelled   *)
(* as the component tree the handler builds (tag, id attribute, children), *)
(* with every f-string computed by string concatenation.                   *)
(*                                                                         *)
(* Spec     : requests are served one after the other.                     *)
(* SpecConc : several requests are in flight; the event loop runs one      *)
(*            handler body at a time, in any order.                        *)
(***************************************************************************)
EXTENDS Integers, Sequences, FiniteSets, TLC

VARIABLES
    users,          \* dict  username -> [email, password]        (line 15)
    images,         \* dict  id -> [id, url, description, likes, comments]
    next_image_id,  \* the global counter                         (line 24)
    req,            \* the request served last
    resp,           \* the response it got
    old,            \* the store as it was when that request arrived
    prevReq,        \* the request served before it
    submitted,      \* per image, every comment text posted to it, in order
    steps,          \* number of requests served (Spec)
    inflight        \* the requests in flight (SpecConc)

vars == <<users, images, next_image_id, req, resp, old, prevReq, submitted,
          steps, inflight>>

-----------------------------------------------------------------------------
(* Bounds and input sets *)

MaxSteps == 3

MaxInFlight == 3

\* Ids requests are made on: 0 never exists, 3 and 4 are seeded, 7 exists
\* once an image has been uploaded.
ReqIds == {0, 3, 4, 7}

Usernames == {"ann", "bob"}

Emails == {"a@x.org", "b@x.org"}

Passwords == {"pw1", "pw2"}

Texts == {"", " ", "nice", "No comments yet."}

Descriptions == {"cat", "dog"}

-----------------------------------------------------------------------------
(* The store *)

SeedImages ==
    [i \in 1..6 |->
        CASE i = 1 -> [id |-> 1, url |-> "https://via.placeholder.com/300x200.png?text=Image+1",
                       description |-> "A lovely placeholder", likes |-> 10,
                       comments |-> <<"Great shot!", "Beautiful.">>]
          [] i = 2 -> [id |-> 2, url |-> "https://via.placeholder.com/300x200.png?text=Image+2",
                       description |-> "Another placeholder view", likes |-> 5,
                       comments |-> <<"Nice.">>]
          [] i = 3 -> [id |-> 3, url |-> "https://via.placeholder.com/300x200.png?text=Image+3",
                       description |-> "Placeholder number three", likes |-> 22,
                       comments |-> <<>>]
          [] i = 4 -> [id |-> 4, url |-> "https://via.placeholder.com/300x200.png?text=Image+4",
                       description |-> "Yet another one", likes |-> 1,
                       comments |-> <<"Cool">>]
          [] i = 5 -> [id |-> 5, url |-> "https://via.placeholder.com/300x200.png?text=Image+5",
                       description |-> "Placeholder five", likes |-> 8,
                       comments |-> <<>>]
          [] i = 6 -> [id |-> 6, url |-> "https://via.placeholder.com/300x200.png?text=Image+6",
                       description |-> "Number six", likes |-> 15,
                       comments |-> <<"Wow!", "Amazing">>]]

SeedUsers == [u \in {} |-> [email |-> "", password |-> ""]]

SeedNextImageId == 7

SeedStore ==
    [users |-> SeedUsers, images |-> SeedImages, next_image_id |-> SeedNextImageId]

Store == [users |-> users, images |-> images, next_image_id |-> next_image_id]

\* d[k] = v on a Python dict: the key is added, or its value replaced.
DictSet(d, k, v) == [x \in DOMAIN d \cup {k} |-> IF x = k THEN v ELSE d[x]]

-----------------------------------------------------------------------------
(* Responses *)

\* raise HTTPException(status_code=..., detail=...)
HTTPException(S, status_code, detail) ==
    [store |-> S, resp |-> [status |-> status_code, body |-> [detail |-> detail]]]

\* HTMLResponse(content), status 200
HTMLResponse(S, content) ==
    [store |-> S, resp |-> [status |-> 200, body |-> content]]

\* RedirectResponse(url=..., status_code=...)
RedirectResponse(S, url, status_code) ==
    [store |-> S, resp |-> [status |-> status_code, body |-> [location |-> url]]]

-----------------------------------------------------------------------------
(* Fragments *)

LikeButton(label, path, img_id) ==
    [tag |-> "button", text |-> label,
     hx_post |-> path \o ToString(img_id),
     hx_target |-> "#likes-" \o ToString(img_id),
     hx_swap |-> "outerHTML"]

render_like_section(img_id, current_likes) ==
    [tag |-> "span",
     id |-> "likes-" \o ToString(img_id),
     text |-> ToString(current_likes) \o " Likes",
     buttons |-> <<LikeButton("Like", "/like/", img_id),
                   LikeButton("Unlike", "/unlike/", img_id)>>]

render_comments_list(img_id, comments) ==
    [tag |-> "ul",
     id |-> "comments-list-" \o ToString(img_id),
     class |-> "comments-list",
     items |-> IF comments # <<>> THEN comments ELSE <<"No comments yet.">>]

\* sorted(keys) without reverse=True: ascending.
RECURSIVE SortedAsc(_)
SortedAsc(keys) ==
    IF keys = {} THEN <<>>
    ELSE LET m == CHOOSE k \in keys : \A j \in keys : k <= j
         IN  <<m>> \o SortedAsc(keys \ {m})

\* sorted(keys, reverse=True)
RECURSIVE SortedDesc(_)
SortedDesc(keys) ==
    IF keys = {} THEN <<>>
    ELSE LET m == CHOOSE k \in keys : \A j \in keys : j <= k
         IN  <<m>> \o SortedDesc(keys \ {m})

\* str.strip(): the text without its leading and trailing whitespace.
IsSpace(c) == c \in {" ", "\t", "\n", "\r"}

RECURSIVE lstrip(_)
lstrip(s) ==
    IF Len(s) > 0 /\ IsSpace(SubSeq(s, 1, 1)) THEN lstrip(SubSeq(s, 2, Len(s))) ELSE s

RECURSIVE rstrip(_)
rstrip(s) ==
    IF Len(s) > 0 /\ IsSpace(SubSeq(s, Len(s), Len(s)))
    THEN rstrip(SubSeq(s, 1, Len(s) - 1)) ELSE s

strip(s) == rstrip(lstrip(s))

-----------------------------------------------------------------------------
(* Handlers: store -> [store, resp] *)

signup_page(S) ==
    HTMLResponse(S, [title |-> "Sign Up", form |-> [action |-> "/signup", method |-> "post",
                     fields |-> <<"username", "email", "password">>]])

\* handle_signup without the `username in users` check.
handle_signup_overwriting(S, username, email, password) ==
    RedirectResponse(
        [S EXCEPT !.users = DictSet(S.users, username,
                                    [email |-> email, password |-> password])],
        "/", 303)

handle_signup(S, username, email, password) ==
    IF username \in DOMAIN S.users
    THEN HTTPException(S, 400, "Username already exists")
    ELSE RedirectResponse(
            [S EXCEPT !.users = DictSet(S.users, username,
                                        [email |-> email, password |-> password])],
            "/", 303)

feed_page(S) ==
    LET sorted_image_ids == SortedDesc(DOMAIN S.images)
        image_grid_items ==
            [n \in 1..Len(sorted_image_ids) |->
                LET img_id == sorted_image_ids[n]
                    img_data == S.images[img_id]
                IN  [tag |-> "a", href |-> "/image/" \o ToString(img_id),
                     src |-> img_data.url, alt |-> img_data.description]]
    IN  HTMLResponse(S, [title |-> "Feed", grid |-> image_grid_items])

image_detail_page(S, image_id) ==
    IF image_id \notin DOMAIN S.images
    THEN HTTPException(S, 404, "Image not found")
    ELSE LET img_data == S.images[image_id]
         IN  HTMLResponse(S,
                [title |-> "Image " \o ToString(image_id),
                 src |-> img_data.url, alt |-> img_data.description,
                 description |-> img_data.description,
                 likes |-> render_like_section(image_id, img_data.likes),
                 comments |-> render_comments_list(image_id, img_data.comments),
                 form |-> [hx_post |-> "/comment/" \o ToString(image_id),
                           hx_target |-> "#comments-list-" \o ToString(image_id),
                           hx_swap |-> "outerHTML"]])

\* like_image with `+= 2`.
like_image_twice(S, image_id) ==
    IF image_id \notin DOMAIN S.images
    THEN HTTPException(S, 404, "Image not found")
    ELSE LET S2 == [S EXCEPT !.images[image_id].likes = @ + 2]
         IN  HTMLResponse(S2, render_like_section(image_id, S2.images[image_id].likes))

\* like_image creating the entry it does not find (a setdefault) instead of
\* raising 404.
like_image_upsert(S, image_id) ==
    LET S1 == IF image_id \in DOMAIN S.images THEN S
              ELSE [S EXCEPT !.images = DictSet(S.images, image_id,
                        [id |-> image_id, url |-> "", description |-> "",
                         likes |-> 0, comments |-> <<>>])]
        S2 == [S1 EXCEPT !.images[image_id].likes = @ + 1]
    IN  HTMLResponse(S2, render_like_section(image_id, S2.images[image_id].likes))

like_image(S, image_id) ==
    IF image_id \notin DOMAIN S.images
    THEN HTTPException(S, 404, "Image not found")
    ELSE LET S2 == [S EXCEPT !.images[image_id].likes = @ + 1]
         IN  HTMLResponse(S2, render_like_section(image_id, S2.images[image_id].likes))

\* unlike_image without the `likes > 0` check.
unlike_image_unguarded(S, image_id) ==
    IF image_id \notin DOMAIN S.images
    THEN HTTPException(S, 404, "Image not found")
    ELSE LET S2 == [S EXCEPT !.images[image_id].likes = @ - 1]
         IN  HTMLResponse(S2, render_like_section(image_id, S2.images[image_id].likes))

\* unlike_image rendering the counter it read before the decrement.
unlike_image_stale_fragment(S, image_id) ==
    IF image_id \notin DOMAIN S.images
    THEN HTTPException(S, 404, "Image not found")
    ELSE LET S2 == IF S.images[image_id].likes > 0
                   THEN [S EXCEPT !.images[image_id].likes = @ - 1]
                   ELSE S
         IN  HTMLResponse(S2, render_like_section(image_id, S.images[image_id].likes))

unlike_image(S, image_id) ==
    IF image_id \notin DOMAIN S.images
    THEN HTTPException(S, 404, "Image not found")
    ELSE LET S2 == IF S.images[image_id].likes > 0
                   THEN [S EXCEPT !.images[image_id].likes = @ - 1]
                   ELSE S
         IN  HTMLResponse(S2, render_like_section(image_id, S2.images[image_id].likes))

\* add_comment without the `if comment:` check.
add_comment_unchecked(S, image_id, comment) ==
    IF image_id \notin DOMAIN S.images
    THEN HTTPException(S, 404, "Image not found")
    ELSE LET S2 == [S EXCEPT !.images[image_id].comments = Append(@, comment)]
         IN  HTMLResponse(S2, render_comments_list(image_id, S2.images[image_id].comments))

\* add_comment with `if comment.strip():`.
add_comment_stripping(S, image_id, comment) ==
    IF image_id \notin DOMAIN S.images
    THEN HTTPException(S, 404, "Image not found")
    ELSE LET S2 == IF strip(comment) # ""
                   THEN [S EXCEPT !.images[image_id].comments = Append(@, comment)]
                   ELSE S
         IN  HTMLResponse(S2, render_comments_list(image_id, S2.images[image_id].comments))

add_comment(S, image_id, comment) ==
    IF image_id \notin DOMAIN S.images
    THEN HTTPException(S, 404, "Image not found")
    ELSE LET S2 == IF comment # ""
                   THEN [S EXCEPT !.images[image_id].comments = Append(@, comment)]
                   ELSE S
         IN  HTMLResponse(S2, render_comments_list(image_id, S2.images[image_id].comments))

get_post_form(S) ==
    HTMLResponse(S, [tag |-> "div", class |-> "modal",
                     form |-> [action |-> "/upload", method |-> "post",
                               fields |-> <<"image_file", "description">>]])

close_modal(S) == HTMLResponse(S, "")

\* handle_upload with `next_image_id += 2`.
handle_upload_double_bump(S, description) ==
    LET new_id == S.next_image_id
        entry  == [id |-> new_id,
                   url |-> "https://via.placeholder.com/300x200.png?text=New+Post+"
                             \o ToString(new_id),
                   description |-> description,
                   likes |-> 0,
                   comments |-> <<>>]
    IN  HTMLResponse([S EXCEPT !.images = DictSet(S.images, new_id, entry),
                               !.next_image_id = @ + 2],
                     "Upload successful")

handle_upload(S, description) ==
    LET new_id == S.next_image_id
        entry  == [id |-> new_id,
                   url |-> "https://via.placeholder.com/300x200.png?text=New+Post+"
                             \o ToString(new_id),
                   description |-> description,
                   likes |-> 0,
                   comments |-> <<>>]
    IN  HTMLResponse([S EXCEPT !.images = DictSet(S.images, new_id, entry),
                               !.next_image_id = @ + 1],
                     "Upload successful")

-----------------------------------------------------------------------------
(* Serving a request *)

Request(kind, args) == [kind |-> kind, args |-> args]

NoRequest == Request("none", <<>>)

\* The comment texts that reached an existing image, per image.
Logged(r, S) ==
    IF r.kind = "comment" /\ r.args[1] \in DOMAIN S.images
    THEN [i \in DOMAIN submitted \cup {r.args[1]} |->
            IF i = r.args[1]
            THEN (IF i \in DOMAIN submitted THEN submitted[i] ELSE <<>>) \o <<r.args[2]>>
            ELSE submitted[i]]
    ELSE submitted

\* The handler's outcome becomes the state; the request and the store it
\* met are remembered.
Serve(r, out) ==
    /\ users' = out.store.users
    /\ images' = out.store.images
    /\ next_image_id' = out.store.next_image_id
    /\ resp' = out.resp
    /\ req' = r
    /\ prevReq' = req
    /\ old' = Store
    /\ submitted' = Logged(r, Store)

-----------------------------------------------------------------------------
(* Spec: one request at a time *)

Tick == steps < MaxSteps /\ steps' = steps + 1 /\ UNCHANGED inflight

GetSignup == Tick /\ Serve(Request("signup_page", <<>>), signup_page(Store))

PostSignup(username, email, password) ==
    Tick /\ Serve(Request("signup", <<username, email, password>>),
                  handle_signup(Store, username, email, password))

GetFeed == Tick /\ Serve(Request("feed", <<>>), feed_page(Store))

GetImage(image_id) ==
    Tick /\ Serve(Request("detail", <<image_id>>), image_detail_page(Store, image_id))

PostLike(image_id) ==
    Tick /\ Serve(Request("like", <<image_id>>), like_image(Store, image_id))

PostUnlike(image_id) ==
    Tick /\ Serve(Request("unlike", <<image_id>>), unlike_image(Store, image_id))

PostComment(image_id, comment) ==
    Tick /\ Serve(Request("comment", <<image_id, comment>>),
                  add_comment(Store, image_id, comment))

GetPostForm == Tick /\ Serve(Request("post_form", <<>>), get_post_form(Store))

GetCloseModal == Tick /\ Serve(Request("close_modal", <<>>), close_modal(Store))

PostUpload(description) ==
    Tick /\ Serve(Request("upload", <<description>>), handle_upload(Store, description))

Init ==
    /\ users = SeedUsers
    /\ images = SeedImages
    /\ next_image_id = SeedNextImageId
    /\ req = NoRequest
    /\ prevReq = NoRequest
    /\ resp = [status |-> 0, body |-> ""]
    /\ old = SeedStore
    /\ submitted = [i \in {} |-> <<>>]
    /\ steps = 0
    /\ inflight = <<>>

Next ==
    \/ GetSignup
    \/ \E u \in Usernames, e \in Emails, p \in Passwords : PostSignup(u, e, p)
    \/ GetFeed
    \/ \E i \in ReqIds : GetImage(i)
    \/ \E i \in ReqIds : PostLike(i)
    \/ \E i \in ReqIds : PostUnlike(i)
    \/ \E i \in ReqIds, c \in Texts : PostComment(i, c)
    \/ GetPostForm
    \/ GetCloseModal
    \/ \E d \in Descriptions : PostUpload(d)

Spec == Init /\ [][Next]_vars

-----------------------------------------------------------------------------
(* SpecConc: requests in flight *)

\* The route table: the handler the application registers for each request.
Handle(S, r) ==
    CASE r.kind = "signup_page" -> signup_page(S)
      [] r.kind = "signup"      -> handle_signup(S, r.args[1], r.args[2], r.args[3])
      [] r.kind = "feed"        -> feed_page(S)
      [] r.kind = "detail"      -> image_detail_page(S, r.args[1])
      [] r.kind = "like"        -> like_image(S, r.args[1])
      [] r.kind = "unlike"      -> unlike_image(S, r.args[1])
      [] r.kind = "comment"     -> add_comment(S, r.args[1], r.args[2])
      [] r.kind = "post_form"   -> get_post_form(S)
      [] r.kind = "close_modal" -> close_modal(S)
      [] r.kind = "upload"      -> handle_upload(S, r.args[1])

\* The requests sent concurrently.
ConcRequests ==
    {Request("like", <<3>>), Request("like", <<7>>),
     Request("unlike", <<4>>),
     Request("comment", <<4, "nice">>),
     Request("upload", <<"cat">>), Request("upload", <<"dog">>),
     Request("signup", <<"ann", "a@x.org", "pw1">>),
     Request("signup", <<"ann", "b@x.org", "pw2">>)}

\* A request arrives: the server has read it, its handler has not run yet.
Receive(r) ==
    /\ Len(inflight) < MaxInFlight
    /\ inflight' = Append(inflight,
                          [req |-> r, state |-> "received",
                           resp |-> [status |-> 0, body |-> ""], new_id |-> 0])
    /\ UNCHANGED <<users, images, next_image_id, req, resp, old, prevReq,
                   submitted, steps>>

\* Run with a suspension point between the handler's reads and its writes:
\* the handler works on the store the request handled before it met, and
\* writes its result over what that request wrote.
Run_StaleRead(s) ==
    /\ inflight[s].state = "received"
    /\ LET r   == inflight[s].req
           out == Handle(old, r)
       IN  /\ Serve(r, out)
           /\ inflight' = [inflight EXCEPT ![s] =
                             [req |-> r, state |-> "done", resp |-> out.resp,
                              new_id |-> IF r.kind = "upload" THEN old.next_image_id ELSE 0]]
    /\ UNCHANGED steps

\* The event loop runs the handler of one received request.  No handler body
\* holds an await, so the body runs from its first line to its return with
\* no other handler in between: one step.
Run(s) ==
    /\ inflight[s].state = "received"
    /\ LET r   == inflight[s].req
           out == Handle(Store, r)
       IN  /\ Serve(r, out)
           /\ inflight' = [inflight EXCEPT ![s] =
                             [req |-> r, state |-> "done", resp |-> out.resp,
                              new_id |-> IF r.kind = "upload" THEN next_image_id ELSE 0]]
    /\ UNCHANGED steps

NextConc ==
    \/ \E r \in ConcRequests : Receive(r)
    \/ \E s \in DOMAIN inflight : Run(s)

SpecConc == Init /\ [][NextConc]_vars

-----------------------------------------------------------------------------
(* Vocabulary of the properties *)

\* The image the last request named, when it named one.
Target == req.args[1]

OnImage(kinds) == req.kind \in kinds /\ Target \in DOMAIN old.images

OnMissingImage(kinds) == req.kind \in kinds /\ Target \notin DOMAIN old.images

IsPrefix(s, t) == Len(s) <= Len(t) /\ SubSeq(t, 1, Len(s)) = s

NonEmpty(texts) == SelectSeq(texts, LAMBDA c : c # "")

Posted(i) == IF i \in DOMAIN submitted THEN submitted[i] ELSE <<>>

\* The comment list an image was created with.
BaseComments(i) == IF i \in DOMAIN SeedImages THEN SeedImages[i].comments ELSE <<>>

\* The likes an image was created with.
BaseLikes(i) == IF i \in DOMAIN SeedImages THEN SeedImages[i].likes ELSE 0

-----------------------------------------------------------------------------
(* C1: likes counters *)

\* C1: every image's likes counter is a natural number in every reachable
\* state, and an unlike of an existing image whose counter is 0 is answered
\* 200 and leaves the counter at 0.
C1_LikesNeverNegative ==
    /\ \A i \in DOMAIN images : images[i].likes \in Nat
    /\ (OnImage({"unlike"}) /\ old.images[Target].likes = 0)
          => (resp.status = 200 /\ images[Target].likes = 0)

C1_UnlikeAtZero ==
    /\ OnImage({"unlike"})
    /\ old.images[Target].likes = 0
    /\ resp.status = 200
    /\ images[Target].likes = 0

-----------------------------------------------------------------------------
(* C2: like then unlike *)

\* C2: when a like of an existing image is followed at once by an unlike of
\* the same image, the like took the counter from n to n + 1 and the unlike
\* takes it back to n  (in the step below, the unprimed state is the one the
\* like left, and old is the store the like met).
C2_LikeThenUnlikeRestores ==
    [][ (/\ OnImage({"like"})
         /\ req'.kind = "unlike"
         /\ req'.args = req.args)
        => (/\ images[Target].likes = old.images[Target].likes + 1
            /\ images'[Target].likes = old.images[Target].likes) ]_vars

C2_LikeThenUnlikeServed ==
    /\ prevReq.kind = "like"
    /\ OnImage({"unlike"})
    /\ prevReq.args = req.args
    /\ resp.status = 200
    /\ old.images[Target].likes = 1
    /\ images[Target].likes = 0

-----------------------------------------------------------------------------
(* C3: comment lists *)

\* C3: an image's comment list is the list it was created with followed by
\* the non-empty texts posted to it, in posting order; every request leaves
\* each list it met as a prefix of the list afterwards; an empty text leaves
\* the list as it was.
C3_CommentsArePostingOrder ==
    /\ \A i \in DOMAIN images :
          images[i].comments = BaseComments(i) \o NonEmpty(Posted(i))
    /\ \A i \in DOMAIN old.images :
          /\ i \in DOMAIN images
          /\ IsPrefix(old.images[i].comments, images[i].comments)
    /\ (OnImage({"comment"}) /\ req.args[2] = "")
          => images[Target].comments = old.images[Target].comments

C3_ThreePostsOneEmpty ==
    \E i \in DOMAIN images :
        /\ Len(Posted(i)) = 3
        /\ Posted(i)[2] = ""
        /\ Len(NonEmpty(Posted(i))) = 2
        /\ Posted(i)[1] # Posted(i)[3]
        /\ BaseComments(i) # <<>>

-----------------------------------------------------------------------------
(* C4: blank comments *)

\* C4 as claimed: a comment whose text is empty after trimming whitespace
\* leaves the comment list of an existing image unchanged.
C4_BlankCommentIsNoOp ==
    (OnImage({"comment"}) /\ strip(req.args[2]) = "")
        => images[Target].comments = old.images[Target].comments

\* C4 as amended: only the empty string is dropped; any other text, one of
\* only whitespace included, is appended exactly as given (not trimmed).
C4_OnlyEmptyCommentIsNoOp ==
    OnImage({"comment"})
        => images[Target].comments =
              IF req.args[2] = ""
              THEN old.images[Target].comments
              ELSE Append(old.images[Target].comments, req.args[2])

C4_BlankCommentStored ==
    /\ OnImage({"comment"})
    /\ req.args[2] # ""
    /\ strip(req.args[2]) = ""
    /\ resp.status = 200
    /\ images[Target].comments = Append(old.images[Target].comments, req.args[2])

-----------------------------------------------------------------------------
(* C5: sign-up *)

\* C5: a sign-up with a username already in users is answered 400 and leaves
\* users as it was; a sign-up with a fresh username is answered 303 to "/"
\* and adds exactly that entry; no request changes or removes a stored user.
C5_SignupContract ==
    /\ req.kind = "signup" =>
          LET username == req.args[1]
          IN  IF username \in DOMAIN old.users
              THEN /\ resp.status = 400
                   /\ users = old.users
              ELSE /\ resp.status = 303
                   /\ resp.body.location = "/"
                   /\ DOMAIN users = DOMAIN old.users \cup {username}
                   /\ users[username] = [email |-> req.args[2], password |-> req.args[3]]
    /\ \A u \in DOMAIN old.users : u \in DOMAIN users /\ users[u] = old.users[u]
    /\ req.kind # "signup" => users = old.users

C5_DuplicateRejected ==
    /\ req.kind = "signup"
    /\ req.args[1] \in DOMAIN old.users
    /\ old.users[req.args[1]].email # req.args[2]
    /\ old.users[req.args[1]].password # req.args[3]
    /\ resp.status = 400
    /\ Cardinality(DOMAIN users) = 2

-----------------------------------------------------------------------------
(* C6: upload ids and the feed *)

\* The image a feed item links to.
ImageOfHref(h) == CHOOSE i \in DOMAIN images : "/image/" \o ToString(i) = h

\* C6: every stored id is below next_image_id; no request removes an image;
\* an upload stores its image under an id above every id stored before and
\* leaves the other images as they were; the feed lists every stored image
\* once, in strictly descending id order; the feed served right after an
\* upload starts with the uploaded image.
C6_FreshIdsAndFeedOrder ==
    /\ \A i \in DOMAIN images : i < next_image_id /\ images[i].id = i
    /\ DOMAIN old.images \subseteq DOMAIN images
    /\ old.next_image_id <= next_image_id
    /\ req.kind = "upload" =>
          LET new_id == old.next_image_id
          IN  /\ \A i \in DOMAIN old.images : i < new_id /\ images[i] = old.images[i]
              /\ DOMAIN images = DOMAIN old.images \cup {new_id}
              /\ new_id \notin DOMAIN old.images
    /\ req.kind = "feed" =>
          LET grid == resp.body.grid
          IN  /\ Len(grid) = Cardinality(DOMAIN images)
              /\ \A n \in 1..Len(grid) :
                    \E i \in DOMAIN images : grid[n].href = "/image/" \o ToString(i)
              /\ \A n \in 1..(Len(grid) - 1) :
                    ImageOfHref(grid[n].href) > ImageOfHref(grid[n + 1].href)
    /\ (req.kind = "feed" /\ prevReq.kind = "upload") =>
          LET first == resp.body.grid[1]
          IN  /\ ImageOfHref(first.href) = next_image_id - 1
              /\ \A i \in DOMAIN images : i <= ImageOfHref(first.href)
              /\ first.alt = prevReq.args[1]
              /\ first.src = "https://via.placeholder.com/300x200.png?text=New+Post+"
                                \o ToString(next_image_id - 1)

C6_FeedAfterSecondUpload ==
    /\ req.kind = "feed"
    /\ prevReq.kind = "upload"
    /\ DOMAIN images = 1..8
    /\ resp.body.grid[1].href = "/image/8"
    /\ resp.body.grid[8].href = "/image/1"

-----------------------------------------------------------------------------
(* C7: requests on a missing image *)

\* C7: image detail, like, unlike and comment on an id that is no key of
\* images are answered 404 and leave users, images and next_image_id as they
\* were; no entry is created for the id.
C7_MissingImageIs404 ==
    OnMissingImage({"detail", "like", "unlike", "comment"})
        => /\ resp.status = 404
           /\ Store = old
           /\ Target \notin DOMAIN images

C7_MissingImageRequested ==
    /\ OnMissingImage({"like", "comment"})
    /\ Target = 7
    /\ prevReq.kind \in {"like", "unlike", "comment", "detail"}
    /\ prevReq.args[1] = 0
    /\ resp.status = 404

-----------------------------------------------------------------------------
(* C8: the fragments returned *)

LikesFragmentCurrent ==
    (OnImage({"like", "unlike"}) /\ resp.status = 200)
        => /\ resp.body.id = "likes-" \o ToString(Target)
           /\ resp.body.text = ToString(images[Target].likes) \o " Likes"

\* C8 as claimed: the likes fragment of a successful like or unlike shows
\* the stored counter; the comments fragment of a successful comment shows
\* the stored list, and is the single item "No comments yet." if and only if
\* the stored list is empty.
C8_PlaceholderIffEmpty ==
    /\ LikesFragmentCurrent
    /\ (OnImage({"comment"}) /\ resp.status = 200)
          => /\ resp.body.id = "comments-list-" \o ToString(Target)
             /\ images[Target].comments # <<>>
                   => resp.body.items = images[Target].comments
             /\ resp.body.items = <<"No comments yet.">>
                   <=> images[Target].comments = <<>>

\* C8 as amended: the comments fragment is the stored list when that list
\* is not empty and the single item "No comments yet." when it is empty
\* (a stored list holding only that text gives the same fragment).
C8_FragmentsShowStoredState ==
    /\ LikesFragmentCurrent
    /\ (OnImage({"comment"}) /\ resp.status = 200)
          => /\ resp.body.id = "comments-list-" \o ToString(Target)
             /\ images[Target].comments # <<>>
                   => resp.body.items = images[Target].comments
             /\ images[Target].comments = <<>>
                   => resp.body.items = <<"No comments yet.">>

C8_PlaceholderTextStored ==
    /\ OnImage({"comment"})
    /\ resp.status = 200
    /\ images[Target].comments = <<"No comments yet.">>
    /\ resp.body.items = <<"No comments yet.">>
    /\ prevReq.kind = "like"
    /\ prevReq.args[1] = Target
    /\ old.images[Target].likes = BaseLikes(Target) + 1

-----------------------------------------------------------------------------
(* C9: what each route changes *)

ReadOnlyKinds == {"signup_page", "feed", "detail", "post_form", "close_modal"}

\* Image i is as the request met it, but for the named field.
SameBut(i, field) ==
    /\ images[i].id = old.images[i].id
    /\ images[i].url = old.images[i].url
    /\ images[i].description = old.images[i].description
    /\ field # "likes" => images[i].likes = old.images[i].likes
    /\ field # "comments" => images[i].comments = old.images[i].comments

OthersUntouched(i) ==
    /\ DOMAIN images = DOMAIN old.images
    /\ \A j \in DOMAIN images \ {i} : images[j] = old.images[j]
    /\ users = old.users
    /\ next_image_id = old.next_image_id

\* C9: like and unlike change only the likes of their image; comment only
\* the comments of its image; upload adds one image (likes 0, no comments,
\* the description given) and raises next_image_id by 1; sign-up changes
\* only users; the read-only routes change nothing; id, url and description
\* of a stored image never change.
C9_RoutesChangeOnlyTheirOwn ==
    /\ OnImage({"like", "unlike"}) => OthersUntouched(Target) /\ SameBut(Target, "likes")
    /\ OnImage({"comment"}) => OthersUntouched(Target) /\ SameBut(Target, "comments")
    /\ req.kind = "upload" =>
          /\ users = old.users
          /\ next_image_id = old.next_image_id + 1
          /\ Cardinality(DOMAIN images \ DOMAIN old.images) = 1
          /\ \A i \in DOMAIN old.images : images[i] = old.images[i]
          /\ \A i \in DOMAIN images \ DOMAIN old.images :
                /\ images[i].likes = 0
                /\ images[i].comments = <<>>
                /\ images[i].description = req.args[1]
    /\ req.kind = "signup" =>
          images = old.images /\ next_image_id = old.next_image_id
    /\ req.kind \in ReadOnlyKinds => Store = old
    /\ \A i \in DOMAIN old.images :
          /\ i \in DOMAIN images
          /\ images[i].id = old.images[i].id
          /\ images[i].url = old.images[i].url
          /\ images[i].description = old.images[i].description

C9_UploadAmongOtherData ==
    /\ req.kind = "upload"
    /\ DOMAIN old.users # {}
    /\ old.images[4].likes # BaseLikes(4)
    /\ images[7].description = "dog"
    /\ next_image_id = 8

-----------------------------------------------------------------------------
(* C10: requests in flight together *)

Done == {s \in DOMAIN inflight : inflight[s].state = "done"}

\* The handled requests of a kind that found image i.
DoneOn(kind, i) ==
    {s \in Done : /\ inflight[s].req.kind = kind
                  /\ inflight[s].req.args[1] = i
                  /\ inflight[s].resp.status = 200}

DoneUploads == {s \in Done : inflight[s].req.kind = "upload"}

\* The orders in which the requests of a set can be served.
RECURSIVE Orders(_)
Orders(S) ==
    IF S = {} THEN {<<>>}
    ELSE UNION {{<<s>> \o o : o \in Orders(S \ {s})} : s \in S}

\* Serving the requests of the slots in order, one after the other, from
\* store S0: the store left and the response each slot got.
RECURSIVE Sequentially(_, _)
Sequentially(S0, order) ==
    IF order = <<>> THEN [store |-> S0, resps |-> <<>>]
    ELSE LET out  == Handle(S0, inflight[Head(order)].req)
             rest == Sequentially(out.store, Tail(order))
         IN  [store |-> rest.store, resps |-> <<out.resp>> \o rest.resps]

\* C10: with requests in flight together, the store and the responses are
\* those of serving the handled requests one after the other in some order;
\* likes handled on an image nobody unliked raise its counter by exactly
\* their number; no counter is below 0; uploads handled get distinct ids and
\* each uploaded image is still stored as uploaded.
C10_InterleavingsAreSequential ==
    /\ \E order \in Orders(Done) :
          LET run == Sequentially(SeedStore, order)
          IN  /\ run.store = Store
              /\ \A k \in 1..Len(order) : run.resps[k] = inflight[order[k]].resp
    /\ \A i \in DOMAIN images :
          /\ images[i].likes >= 0
          /\ DoneOn("unlike", i) = {} =>
                images[i].likes = BaseLikes(i) + Cardinality(DoneOn("like", i))
          /\ images[i].likes >= BaseLikes(i) + Cardinality(DoneOn("like", i))
                                  - Cardinality(DoneOn("unlike", i))
    /\ \A s \in DoneUploads :
          /\ inflight[s].new_id \in DOMAIN images
          /\ images[inflight[s].new_id].description = inflight[s].req.args[1]
          /\ \A t \in DoneUploads \ {s} : inflight[t].new_id # inflight[s].new_id
    /\ Cardinality(DOMAIN images) = 6 + Cardinality(DoneUploads)

C10_AllHandled ==
    /\ Len(inflight) = 3
    /\ Done = 1..3
    /\ inflight[1].req = Request("like", <<7>>)
    /\ inflight[1].resp.status = 200
    /\ inflight[2].req.kind = "upload"
    /\ inflight[3].req.kind = "upload"
    /\ inflight[3].new_id = 7
    /\ inflight[2].new_id = 8
    /\ images[7].description = "dog"
    /\ images[8].description = "cat"
    /\ images[7].likes = 1

=============================================================================
